---- MODULE Spec2Model ----
(***************************************************************************)
(* A model of the quiz platform backend of src/server.js: the JSON files   *)
(* of the data directory, the bearer credentials, and the request handlers *)
(* of the HTTP API.  A handler runs atomically between two awaits; every   *)
(* await of readJsonFile / writeJsonFile is a point where the handlers of  *)
(* other requests may run.                                                 *)
(*                                                                         *)
(* JavaScript values are tagged tuples, so that 0, "0", null and undefined *)
(* stay different values under ===.  A JavaScript object is a function     *)
(* from its property names; a property holding undefined is dropped when   *)
(* the object is written as JSON.                                          *)
(***************************************************************************)
EXTENDS Integers, Sequences, FiniteSets, TLC

VARIABLES
    users,       \* data/users.json, a sequence of accounts
    directions,  \* data/directions.json
    tests,       \* data/tests.json
    results,     \* data/results.json
    tokens,      \* the credentials issued by /api/login and still valid
    now,         \* the last value Date.now() returned
    reqs,        \* the requests in flight: what each handler holds at its await
    answered,    \* the requests answered so far, each with its response
    nreq,        \* the number of requests received
    verifications,    \* data/verification.json
    bot,              \* whether the Telegram bot was initialised
    telegramChatIds,  \* the usernames the bot holds a chat id for
    used              \* the codes verified and not issued again since

\* the state of the verification by Telegram
verificationVars == <<verifications, bot, telegramChatIds, used>>

vars == <<users, directions, tests, results, tokens, now, reqs, answered, nreq,
          verificationVars>>

(***************************************************************************)
(* JavaScript values                                                       *)
(***************************************************************************)
Num(n) == <<"number", n>>
Str(s) == <<"string", s>>
Bool(b) == <<"boolean", b>>
Null == <<"null">>
Undef == <<"undefined">>
NaN == <<"NaN">>

\* obj[key]: undefined when the object has no such property
Get(obj, key) == IF key \in DOMAIN obj THEN obj[key] ELSE Undef

\* JSON.stringify of a number: NaN is written as null
JsonNumber(v) == IF v = NaN THEN Null ELSE v

\* JSON.stringify of an object: a property holding undefined is left out
JsonObject(obj) ==
    [k \in {k \in DOMAIN obj : obj[k] # Undef} |-> obj[k]]

\* { ...a, ...b }: the properties of b override those of a
Spread(a, b) ==
    [k \in DOMAIN a \cup DOMAIN b |-> IF k \in DOMAIN b THEN b[k] ELSE a[k]]

(***************************************************************************)
(* IEEE-754 double arithmetic of (score / length) * 100 and Math.round.    *)
(* A 53-bit significand, and its 60-bit product with 100, is held in three *)
(* limbs of 20 bits, <<high, mid, low>>; a positive double is              *)
(* [m |-> limbs, e |-> exponent], the integer of the limbs times 2^e.      *)
(***************************************************************************)
MantissaBits == 53
LimbBits == 20

RECURSIVE ShiftLeft(_, _)
ShiftLeft(r, z) == IF z = 0 THEN r ELSE ShiftLeft(2 * r, z - 1)

Pow2(k) == ShiftLeft(1, k)
Limb == Pow2(LimbBits)

RECURSIVE LeadingZeros(_, _)
\* the number of zero bits after the binary point of r / n, for 0 < r < n
LeadingZeros(r, n) == IF 2 * r >= n THEN 0 ELSE 1 + LeadingZeros(2 * r, n)

RECURSIVE BitLength(_)
BitLength(v) == IF v = 0 THEN 0 ELSE 1 + BitLength(v \div 2)

\* limbs + 2^k, for k < LimbBits, the carry going up the limbs
AddPow2(m, k) ==
    LET low == m[3] + Pow2(k)
        mid == m[2] + (low \div Limb)
    IN  <<m[1] + (mid \div Limb), mid % Limb, low % Limb>>

\* limbs with their `drop` lowest bits rounded away (to zero bits), to the
\* nearest, a tie going to the even neighbour; 0 <= drop < LimbBits
RoundNearestEven(m, drop, sticky) ==
    IF drop = 0
    THEN m
    ELSE LET unit == Pow2(drop)
             half == Pow2(drop - 1)
             tail == m[3] % unit
             kept == <<m[1], m[2], m[3] - tail>>
             odd == (m[3] \div unit) % 2 = 1
         IN  IF tail > half \/ (tail = half /\ (sticky \/ odd))
             THEN AddPow2(kept, drop)
             ELSE kept

\* the double nearest to s / n, for 0 < s < n < 2^11: the quotient to 54
\* bits (53 and the guard bit), then rounded
DoubleDiv(s, n) ==
    LET z == LeadingZeros(s, n)
        r0 == ShiftLeft(s, z)
        high == (r0 * Pow2(MantissaBits + 1 - 2 * LimbBits)) \div n
        r1 == (r0 * Pow2(MantissaBits + 1 - 2 * LimbBits)) % n
        mid == (r1 * Limb) \div n
        r2 == (r1 * Limb) % n
        low == (r2 * Limb) \div n
        r3 == (r2 * Limb) % n
        rounded == RoundNearestEven(<<high, mid, low>>, 1, r3 # 0)
    IN  [m |-> rounded, e |-> 0 - (z + MantissaBits + 1)]

\* the double nearest to x * k, for a positive double x and 0 < k < 2^10
DoubleMul(x, k) ==
    LET low == x.m[3] * k
        mid == (x.m[2] * k) + (low \div Limb)
        high == (x.m[1] * k) + (mid \div Limb)
        product == <<high, mid % Limb, low % Limb>>
        length == 2 * LimbBits + BitLength(high)
        drop == IF length > MantissaBits THEN length - MantissaBits ELSE 0
    IN  [m |-> RoundNearestEven(product, drop, FALSE), e |-> x.e]

\* Math.round of a positive double whose binary point lies in the high limb:
\* the nearest integer, a tie going up
MathRound(x) ==
    LET point == (0 - x.e) - (2 * LimbBits)
    IN  (x.m[1] \div Pow2(point)) + ((x.m[1] \div Pow2(point - 1)) % 2)

\* Math.round((score / length) * 100), for 0 <= score <= length
Percentage(score, length) ==
    IF length = 0 THEN NaN                      \* 0 / 0
    ELSE IF score = 0 THEN Num(0)
    ELSE IF score = length THEN Num(100)        \* 1 * 100
    ELSE Num(MathRound(DoubleMul(DoubleDiv(score, length), 100)))

(***************************************************************************)
(* Bounds of the model                                                     *)
(***************************************************************************)
MaxRequests == 3     \* requests received in one run
MaxInFlight == 2     \* requests whose handlers overlap
MaxClock == 2        \* distinct values Date.now() returns in one run

Slots == 1..MaxInFlight
Idle == [op |-> "idle"]

\* a new request is held in the first free slot; 0 when MaxInFlight requests
\* are in flight
FreeSlot ==
    IF \E s \in Slots : reqs[s] = Idle
    THEN CHOOSE s \in Slots : reqs[s] = Idle /\ \A u \in 1..(s - 1) : reqs[u] # Idle
    ELSE 0

(***************************************************************************)
(* Array helpers                                                           *)
(***************************************************************************)
\* an element with the property values of probe: the callbacks of find,
\* findIndex and some all compare properties with ===
Passes(element, probe) == \A key \in DOMAIN probe : element[key] = probe[key]

\* array.findIndex(x => x.key === probe.key && ...), counted from 1; 0 when
\* no element passes
FindIndex(array, probe) ==
    IF \E i \in DOMAIN array : Passes(array[i], probe)
    THEN CHOOSE i \in DOMAIN array :
            Passes(array[i], probe) /\ \A j \in 1..(i - 1) : ~Passes(array[j], probe)
    ELSE 0

\* array.some(x => x.key === probe.key)
Some(array, probe) == \E i \in DOMAIN array : Passes(array[i], probe)

\* the elements of an array
Range(array) == {array[i] : i \in DOMAIN array}

\* array.filter(Keep), Keep given as the set of the elements kept
Filter(array, kept) == SelectSeq(array, LAMBDA v : v \in kept)

\* array.splice(index, 1)
RemoveAt(array, index) ==
    SubSeq(array, 1, index - 1) \o SubSeq(array, index + 1, Len(array))

\* Date.now().toString(): the decimal string of the clock, which is no id of
\* the initial files
DateNowString(t) == "T" \o ToString(t)

(***************************************************************************)
(* Request bodies                                                          *)
(***************************************************************************)
\* the largest number parseInt is given as a decimal string
MaxParsed == 60

\* parseInt: a whole number is itself, a decimal string is its number,
\* anything else is NaN
ParseInt(v) ==
    IF v[1] = "number" THEN v
    ELSE IF v[1] = "string" /\ \E n \in 0..MaxParsed : ToString(n) = v[2]
    THEN Num(CHOOSE n \in 0..MaxParsed : ToString(n) = v[2])
    ELSE NaN

\* !body[key], the property a string of the model
Empty(body, key) == key \notin DOMAIN body \/ body[key] = ""

\* !body[key], the property a JavaScript value
Not(body, key) ==
    key \notin DOMAIN body
    \/ body[key] \in {Num(0), Str(""), Bool(FALSE), Null, Undef, NaN}

(***************************************************************************)
(* Responses and the middleware                                            *)
(***************************************************************************)
Failure(status, error) == [status |-> status, error |-> error]
Success(body) == [status |-> 200, error |-> "", body |-> body]
Pending == Failure(0, "")

NoToken == [kind |-> "none"]
BadToken == [kind |-> "bad"]
Bearer(token) == [kind |-> "bearer", userId |-> token.userId, isAdmin |-> token.isAdmin]

\* the Authorization headers a client can send
Credentials == {NoToken, BadToken} \cup {Bearer(t) : t \in tokens}

\* authenticateToken calls next()
Authenticated(cred) == cred.kind = "bearer"

\* a faulty chain, for comparison: requireAdmin is left out
AdminUnchecked(cred) == cred.kind = "bearer"

\* authenticateToken and requireAdmin both call next()
Admin(cred) == Authenticated(cred) /\ cred.isAdmin

\* a request is answered
Answer(r, resp) == answered' = answered \cup {[r EXCEPT !.resp = resp]}

\* what a handler holds at an await, without the locals named
Without(r, locals) == [k \in DOMAIN r \ locals |-> r[k]]

\* a property the request body does not hold
Missing(body, key) == key \notin DOMAIN body

\* authenticateToken answers a request to a route it guards: no token, or a
\* token jwt.verify refuses
AuthenticateTokenRejects(route, cred) ==
    /\ nreq < MaxRequests
    /\ ~Authenticated(cred)
    /\ nreq' = nreq + 1
    /\ Answer([op |-> "authenticateToken", route |-> route, cred |-> cred, resp |-> Pending],
              IF cred.kind = "none" THEN Failure(401, "MissingToken")
              ELSE Failure(403, "InvalidToken"))
    /\ UNCHANGED <<users, directions, tests, results, tokens, now, reqs, verificationVars>>

\* requireAdmin answers a request to an /api/admin route
RequireAdminRejects(cred) ==
    /\ nreq < MaxRequests
    /\ Authenticated(cred) /\ ~cred.isAdmin
    /\ nreq' = nreq + 1
    /\ Answer([op |-> "requireAdmin", route |-> "admin", cred |-> cred, resp |-> Pending],
              Failure(403, "Forbidden"))
    /\ UNCHANGED <<users, directions, tests, results, tokens, now, reqs, verificationVars>>

\* Date.now() returns clock: the last value or a later one
ClockRead(clock) == clock \in {now, now + 1} /\ 1 <= clock /\ clock <= MaxClock

(***************************************************************************)
(* POST /api/submit-test                                                   *)
(***************************************************************************)
\* a faulty grading, for comparison: the answer of the next position is read
AnswerAtNext(answers, index) == Get(answers, index + 1)

\* answers[index], index counted from 0: undefined past the end of the array
\* and at a missing key
AnswerAt(answers, index) == Get(answers, index)

\* the callback of test.questions.map: one per-question outcome record
QuestionResult(question, userAnswer) ==
    [questionId |-> Get(question, "id"),
     userAnswer |-> userAnswer,
     correctAnswer |-> Get(question, "correct"),
     isCorrect |-> Bool(userAnswer = Get(question, "correct"))]

\* test.questions.map(...): the outcome records, in the order of the questions
QuestionResults(questions, answers) ==
    [i \in 1..Len(questions) |-> QuestionResult(questions[i], AnswerAt(answers, i - 1))]

RECURSIVE CountCorrect(_, _)
\* score++ at every outcome that is correct, over the first k outcomes
CountCorrect(outcomes, k) ==
    IF k = 0 THEN 0
    ELSE CountCorrect(outcomes, k - 1) + (IF outcomes[k].isCorrect = Bool(TRUE) THEN 1 ELSE 0)

Score(questions, answers) ==
    CountCorrect(QuestionResults(questions, answers), Len(questions))

\* JSON.stringify(newResult), as the results file holds it
NewResult(clock, userId, testId, test, answers, timeSpent) ==
    [id |-> DateNowString(clock),
     userId |-> userId,
     testId |-> testId,
     score |-> Score(test.questions, answers),
     totalQuestions |-> Len(test.questions),
     percentage |-> JsonNumber(Percentage(Score(test.questions, answers), Len(test.questions))),
     timeSpent |-> timeSpent,
     questionResults |->
        [i \in 1..Len(test.questions) |->
            JsonObject(QuestionResults(test.questions, answers)[i])],
     createdAt |-> clock]

\* the body of res.json({ success: true, score, totalQuestions, percentage })
SubmitSummary(test, answers) ==
    [score |-> Score(test.questions, answers),
     totalQuestions |-> Len(test.questions),
     percentage |-> JsonNumber(Percentage(Score(test.questions, answers), Len(test.questions)))]

\* a faulty check, for comparison: no earlier result is ever found
NoExistingResult(file, userId, testId) == 0

\* results.find(r => r.userId === req.user.userId && r.testId === testId), as
\* an index; 0 when there is none
ExistingResult(file, userId, testId) ==
    FindIndex(file, [userId |-> userId, testId |-> testId])

\* a successful submit-test of this account for this test was answered before
AnsweredBefore(userId, testId) ==
    \E a \in answered :
        /\ a.op = "submit" /\ a.resp.status = 200
        /\ a.cred.userId = userId /\ a.testId = testId

\* the handler up to its second await: the body, the test looked up
SubmitTest(slot, cred, body) ==
    LET testId == IF Empty(body, "testId") THEN "" ELSE body.testId
        index == FindIndex(tests, [id |-> testId])
        r == [op |-> "submit", slot |-> slot, cred |-> cred, testId |-> testId,
              body |-> body, resp |-> Pending, wrote |-> FALSE,
              after |-> AnsweredBefore(cred.userId, testId) /\ index # 0
                        /\ ~Missing(body, "answers")]
    IN  /\ nreq < MaxRequests
        /\ slot = FreeSlot
        /\ Authenticated(cred)
        /\ nreq' = nreq + 1
        /\ IF Empty(body, "testId") \/ Missing(body, "answers")
           THEN Answer(r, Failure(400, "ValidationError")) /\ UNCHANGED reqs
           ELSE IF index = 0
           THEN Answer(r, Failure(404, "TestNotFound")) /\ UNCHANGED reqs
           ELSE /\ reqs' = [reqs EXCEPT ![slot] =
                                [pc |-> "readResults", test |-> tests[index]] @@ r]
                /\ UNCHANGED answered
        /\ UNCHANGED <<users, directions, tests, results, tokens, now, verificationVars>>

\* readJsonFile(RESULTS_FILE) returns: the check for an earlier result, the
\* grading, results.push(newResult)
SubmitReadResults(slot, clock) ==
    LET r == reqs[slot]
    IN  /\ r.op = "submit" /\ r.pc = "readResults"
        /\ ClockRead(clock)
        /\ IF ExistingResult(results, r.cred.userId, r.testId) # 0
           THEN /\ Answer(Without(r, {"pc"}), Failure(400, "AlreadySubmitted"))
                /\ reqs' = [reqs EXCEPT ![slot] = Idle]
                /\ UNCHANGED now
           ELSE /\ reqs' = [reqs EXCEPT ![slot] =
                    [pc |-> "write",
                     results |-> Append(results,
                        NewResult(clock, r.cred.userId, r.testId,
                                  r.test, r.body.answers,
                                  IF Not(r.body, "timeSpent") THEN Num(0)
                                  ELSE r.body.timeSpent))] @@ r]
                /\ now' = clock
                /\ UNCHANGED answered
        /\ UNCHANGED <<users, directions, tests, results, tokens, nreq, verificationVars>>

\* writeJsonFile(RESULTS_FILE, results) returns, true or false, and the
\* handler answers with the summary
SubmitWrite(slot, written) ==
    LET r == reqs[slot]
    IN  /\ r.op = "submit" /\ r.pc = "write"
        /\ results' = IF written THEN r.results ELSE results
        /\ Answer([Without(r, {"pc", "results"}) EXCEPT !.wrote = written],
                  Success(SubmitSummary(r.test, r.body.answers)))
        /\ reqs' = [reqs EXCEPT ![slot] = Idle]
        /\ UNCHANGED <<users, directions, tests, tokens, now, nreq, verificationVars>>

(***************************************************************************)
(* GET /api/tests/:id                                                      *)
(***************************************************************************)
\* a faulty callback, for comparison: the question as it is stored
QuestionWithAnswer(q) == q

\* the callback of test.questions.map: id, question and options only
QuestionWithoutAnswer(q) ==
    JsonObject([id |-> Get(q, "id"),
                question |-> Get(q, "question"),
                options |-> Get(q, "options")])

\* { ...test, questions: test.questions.map(...) }
TestWithoutAnswers(test) ==
    Spread(test, [questions |->
        [i \in 1..Len(test.questions) |-> QuestionWithoutAnswer(test.questions[i])]])

GetTest(cred, testId) ==
    LET r == [op |-> "getTest", cred |-> cred, testId |-> testId, resp |-> Pending]
        index == FindIndex(tests, [id |-> testId])
    IN  /\ nreq < MaxRequests
        /\ Authenticated(cred)
        /\ nreq' = nreq + 1
        /\ IF index = 0 THEN Answer(r, Failure(404, "TestNotFound"))
           ELSE Answer(r, Success(TestWithoutAnswers(tests[index])))
        /\ UNCHANGED <<users, directions, tests, results, tokens, now, reqs, verificationVars>>

(***************************************************************************)
(* GET /api/tests                                                          *)
(***************************************************************************)
\* a faulty filter, for comparison: every test, whatever the account
AllTests(user, file) == file

\* let userTests = tests; if (!user.isAdmin) userTests = tests.filter(t =>
\* t.direction === user.direction)
UserTests(user, file) ==
    IF user.isAdmin THEN file
    ELSE Filter(file, {test \in Range(file) : test.direction = user.direction})

\* results.filter(r => r.userId === user.id)
UserResults(user, file) == Filter(file, {r \in Range(file) : r.userId = user.id})

\* userResults.some(r => r.testId === test.id)
Completed(userResults, test) == Some(userResults, [testId |-> test.id])

\* userTests.map(test => ({ ...test, completed }))
TestsWithStatus(user, testsRead, resultsRead) ==
    LET userTests == UserTests(user, testsRead)
        userResults == UserResults(user, resultsRead)
    IN  [i \in 1..Len(userTests) |->
            Spread(userTests[i],
                   [completed |-> Bool(Completed(userResults, userTests[i]))])]

\* the handler up to its second await: readJsonFile(USERS_FILE) has
\* returned, the account of the token looked up
GetTests(slot, cred) ==
    LET r == [op |-> "getTests", slot |-> slot, cred |-> cred, resp |-> Pending]
        index == FindIndex(users, [id |-> cred.userId])
    IN  /\ nreq < MaxRequests
        /\ slot = FreeSlot
        /\ Authenticated(cred)
        /\ nreq' = nreq + 1
        /\ IF index = 0
           THEN Answer(r, Failure(404, "UserNotFound")) /\ UNCHANGED reqs
           ELSE /\ reqs' = [reqs EXCEPT ![slot] =
                                [pc |-> "readTests", user |-> users[index]] @@ r]
                /\ UNCHANGED answered
        /\ UNCHANGED <<users, directions, tests, results, tokens, now, verificationVars>>

\* readJsonFile(TESTS_FILE) returns
GetTestsReadTests(slot) ==
    LET r == reqs[slot]
    IN  /\ r.op = "getTests" /\ r.pc = "readTests"
        /\ reqs' = [reqs EXCEPT ![slot] = [pc |-> "readResults", tests |-> tests] @@ r]
        /\ UNCHANGED <<users, directions, tests, results, tokens, now, answered, nreq, verificationVars>>

\* readJsonFile(RESULTS_FILE) returns, and the handler answers with the
\* array (the request keeps the account and the tests it read)
GetTestsReadResults(slot) ==
    LET r == reqs[slot]
    IN  /\ r.op = "getTests" /\ r.pc = "readResults"
        /\ Answer(Without(r, {"pc"}), Success(TestsWithStatus(r.user, r.tests, results)))
        /\ reqs' = [reqs EXCEPT ![slot] = Idle]
        /\ UNCHANGED <<users, directions, tests, results, tokens, now, nreq, verificationVars>>

(***************************************************************************)
(* POST /api/admin/tests                                                   *)
(***************************************************************************)
\* questions.map((q, index) => ({ id: (index + 1).toString(), ...q }))
NumberQuestions(questions) ==
    [i \in 1..Len(questions) |-> Spread([id |-> Str(ToString(i))], questions[i])]

\* a faulty check, for comparison: the length of questions is not looked at
MissingTestFieldOnly(body) ==
    \/ Empty(body, "title") \/ Empty(body, "direction")
    \/ Not(body, "timeLimit") \/ Not(body, "attempts")
    \/ Missing(body, "questions")

\* !title || !direction || !timeLimit || !attempts || !questions || !questions.length
MissingTestField(body) ==
    \/ Empty(body, "title") \/ Empty(body, "direction")
    \/ Not(body, "timeLimit") \/ Not(body, "attempts")
    \/ Missing(body, "questions")
    \/ Len(body.questions) = 0

\* directions.find(d => d.id === direction), as an index; 0 when there is none
SelectedDirection(file, direction) == FindIndex(file, [id |-> direction])

\* the test object create-test builds from the request body
NewTest(id, body, directionName, clock) ==
    [id |-> id,
     title |-> body.title,
     direction |-> body.direction,
     directionName |-> directionName,
     timeLimit |-> ParseInt(body.timeLimit),
     attempts |-> ParseInt(body.attempts),
     questions |-> NumberQuestions(body.questions),
     createdAt |-> clock]

\* the handler up to its second await: the body, the direction looked up
CreateTest(slot, cred, body, clock) ==
    LET r == [op |-> "createTest", slot |-> slot, cred |-> cred, body |-> body,
              resp |-> Pending, wrote |-> FALSE]
        d == IF Missing(body, "direction") THEN 0
             ELSE SelectedDirection(directions, body.direction)
    IN  /\ nreq < MaxRequests
        /\ slot = FreeSlot
        /\ Admin(cred)
        /\ ClockRead(clock)
        /\ nreq' = nreq + 1
        /\ IF MissingTestField(body)
           THEN Answer(r, Failure(400, "ValidationError")) /\ UNCHANGED <<reqs, now>>
           ELSE IF d = 0
           THEN Answer(r, Failure(400, "UnknownDirection")) /\ UNCHANGED <<reqs, now>>
           ELSE /\ reqs' = [reqs EXCEPT ![slot] =
                    [pc |-> "readTests",
                     test |-> NewTest(DateNowString(clock), body, directions[d].name, clock)]
                    @@ r]
                /\ now' = clock
                /\ UNCHANGED answered
        /\ UNCHANGED <<users, directions, tests, results, tokens, verificationVars>>

\* readJsonFile(TESTS_FILE) returns: tests.push(newTest)
CreateReadTests(slot) ==
    LET r == reqs[slot]
    IN  /\ r.op = "createTest" /\ r.pc = "readTests"
        /\ reqs' = [reqs EXCEPT ![slot] =
                        [pc |-> "write", tests |-> Append(tests, r.test)] @@ r]
        /\ UNCHANGED <<users, directions, tests, results, tokens, now, answered, nreq, verificationVars>>

\* writeJsonFile(TESTS_FILE, tests) returns, and the handler answers
CreateWrite(slot, written) ==
    LET r == reqs[slot]
    IN  /\ r.op = "createTest" /\ r.pc = "write"
        /\ tests' = IF written THEN r.tests ELSE tests
        /\ Answer([Without(r, {"pc", "tests"}) EXCEPT !.wrote = written],
                  Success(r.test))
        /\ reqs' = [reqs EXCEPT ![slot] = Idle]
        /\ UNCHANGED <<users, directions, results, tokens, now, nreq, verificationVars>>

(***************************************************************************)
(* DELETE /api/admin/tests/:id                                             *)
(***************************************************************************)
\* the handler up to its write: tests.findIndex, tests.splice(testIndex, 1)
DeleteTest(slot, cred, testId) ==
    LET r == [op |-> "deleteTest", slot |-> slot, cred |-> cred, testId |-> testId,
              resp |-> Pending, wrote |-> FALSE]
        testIndex == FindIndex(tests, [id |-> testId])
    IN  /\ nreq < MaxRequests
        /\ slot = FreeSlot
        /\ Admin(cred)
        /\ nreq' = nreq + 1
        /\ IF testIndex = 0
           THEN Answer(r, Failure(404, "TestNotFound")) /\ UNCHANGED reqs
           ELSE /\ reqs' = [reqs EXCEPT ![slot] =
                    [pc |-> "write", tests |-> RemoveAt(tests, testIndex)] @@ r]
                /\ UNCHANGED answered
        /\ UNCHANGED <<users, directions, tests, results, tokens, now, verificationVars>>

\* writeJsonFile(TESTS_FILE, tests) returns, and the handler answers
DeleteTestWrite(slot, written) ==
    LET r == reqs[slot]
    IN  /\ r.op = "deleteTest" /\ r.pc = "write"
        /\ tests' = IF written THEN r.tests ELSE tests
        /\ Answer([Without(r, {"pc", "tests"}) EXCEPT !.wrote = written],
                  Success("Deleted"))
        /\ reqs' = [reqs EXCEPT ![slot] = Idle]
        /\ UNCHANGED <<users, directions, results, tokens, now, nreq, verificationVars>>

(***************************************************************************)
(* PUT /api/admin/tests/:id                                                *)
(***************************************************************************)
\* the object assigned to tests[testIndex]
UpdatedTest(test, body, directionName, clock) ==
    Spread(test,
        [title |-> body.title,
         direction |-> body.direction,
         directionName |-> directionName,
         timeLimit |-> ParseInt(body.timeLimit),
         attempts |-> ParseInt(body.attempts),
         questions |-> NumberQuestions(body.questions),
         updatedAt |-> clock])

\* the handler up to its second await: the body, the test looked up
UpdateTest(slot, cred, testId, body) ==
    LET r == [op |-> "updateTest", slot |-> slot, cred |-> cred, testId |-> testId,
              body |-> body, resp |-> Pending, wrote |-> FALSE]
        testIndex == FindIndex(tests, [id |-> testId])
    IN  /\ nreq < MaxRequests
        /\ slot = FreeSlot
        /\ Admin(cred)
        /\ nreq' = nreq + 1
        /\ IF MissingTestField(body)
           THEN Answer(r, Failure(400, "ValidationError")) /\ UNCHANGED reqs
           ELSE IF testIndex = 0
           THEN Answer(r, Failure(404, "TestNotFound")) /\ UNCHANGED reqs
           ELSE /\ reqs' = [reqs EXCEPT ![slot] =
                    [pc |-> "readDirections", tests |-> tests, testIndex |-> testIndex]
                    @@ r]
                /\ UNCHANGED answered
        /\ UNCHANGED <<users, directions, tests, results, tokens, now, verificationVars>>

\* readJsonFile(DIRECTIONS_FILE) returns: the direction looked up, the test
\* replaced in the array read before
UpdateReadDirections(slot, clock) ==
    LET r == reqs[slot]
        d == SelectedDirection(directions, r.body.direction)
    IN  /\ r.op = "updateTest" /\ r.pc = "readDirections"
        /\ ClockRead(clock)
        /\ IF d = 0
           THEN /\ Answer(Without(r, {"pc", "tests", "testIndex"}),
                          Failure(400, "UnknownDirection"))
                /\ reqs' = [reqs EXCEPT ![slot] = Idle]
                /\ UNCHANGED now
           ELSE /\ reqs' = [reqs EXCEPT ![slot] =
                    [pc |-> "write",
                     tests |-> [r.tests EXCEPT ![r.testIndex] =
                        UpdatedTest(r.tests[r.testIndex], r.body, directions[d].name, clock)]]
                    @@ r]
                /\ now' = clock
                /\ UNCHANGED answered
        /\ UNCHANGED <<users, directions, tests, results, tokens, nreq, verificationVars>>

\* writeJsonFile(TESTS_FILE, tests) returns, and the handler answers
UpdateWrite(slot, written) ==
    LET r == reqs[slot]
    IN  /\ r.op = "updateTest" /\ r.pc = "write"
        /\ tests' = IF written THEN r.tests ELSE tests
        /\ Answer([Without(r, {"pc", "tests", "testIndex"}) EXCEPT !.wrote = written],
                  Success(r.tests[r.testIndex]))
        /\ reqs' = [reqs EXCEPT ![slot] = Idle]
        /\ UNCHANGED <<users, directions, results, tokens, now, nreq, verificationVars>>

(***************************************************************************)
(* GET /api/directions                                                     *)
(***************************************************************************)
\* the ids whose delete-direction was answered with success
DeletedDirections ==
    {a.id : a \in {x \in answered : x.op = "deleteDirection" /\ x.resp.status = 200}}

GetDirections ==
    /\ nreq < MaxRequests
    /\ nreq' = nreq + 1
    /\ Answer([op |-> "getDirections", deleted |-> DeletedDirections, resp |-> Pending],
              Success(directions))
    /\ UNCHANGED <<users, directions, tests, results, tokens, now, reqs, verificationVars>>

(***************************************************************************)
(* POST /api/admin/directions                                              *)
(***************************************************************************)
\* the handler up to its write: the name checked, directions.push
AddDirection(slot, cred, body, clock) ==
    LET r == [op |-> "addDirection", slot |-> slot, cred |-> cred, body |-> body,
              resp |-> Pending, wrote |-> FALSE]
    IN  /\ nreq < MaxRequests
        /\ slot = FreeSlot
        /\ Admin(cred)
        /\ ClockRead(clock)
        /\ nreq' = nreq + 1
        /\ IF Empty(body, "name")
           THEN Answer(r, Failure(400, "ValidationError")) /\ UNCHANGED <<reqs, now>>
           ELSE IF Some(directions, [name |-> body.name])
           THEN Answer(r, Failure(400, "DirectionExists")) /\ UNCHANGED <<reqs, now>>
           ELSE /\ reqs' = [reqs EXCEPT ![slot] =
                    [pc |-> "write",
                     directions |-> Append(directions,
                        [id |-> DateNowString(clock), name |-> body.name])] @@ r]
                /\ now' = clock
                /\ UNCHANGED answered
        /\ UNCHANGED <<users, directions, tests, results, tokens, verificationVars>>

\* writeJsonFile(DIRECTIONS_FILE, directions) returns, and the handler answers
AddDirectionWrite(slot, written) ==
    LET r == reqs[slot]
    IN  /\ r.op = "addDirection" /\ r.pc = "write"
        /\ directions' = IF written THEN r.directions ELSE directions
        /\ Answer([Without(r, {"pc", "directions"}) EXCEPT !.wrote = written],
                  Success(r.directions[Len(r.directions)]))
        /\ reqs' = [reqs EXCEPT ![slot] = Idle]
        /\ UNCHANGED <<users, tests, results, tokens, now, nreq, verificationVars>>

(***************************************************************************)
(* DELETE /api/admin/directions/:id                                        *)
(***************************************************************************)
\* an account or a test of the files names the direction (the request
\* records it, as `referenced`, when it makes its two checks)
Referenced(id) ==
    \/ Some(users, [direction |-> id])
    \/ Some(tests, [direction |-> id])

\* the handler up to its second await: directions.findIndex
DeleteDirection(slot, cred, id) ==
    LET r == [op |-> "deleteDirection", slot |-> slot, cred |-> cred, id |-> id,
              resp |-> Pending, wrote |-> FALSE]
        directionIndex == FindIndex(directions, [id |-> id])
    IN  /\ nreq < MaxRequests
        /\ slot = FreeSlot
        /\ Admin(cred)
        /\ nreq' = nreq + 1
        /\ IF directionIndex = 0
           THEN Answer(r, Failure(404, "DirectionNotFound")) /\ UNCHANGED reqs
           ELSE /\ reqs' = [reqs EXCEPT ![slot] =
                    [pc |-> "readUsers", directions |-> directions,
                     directionIndex |-> directionIndex] @@ r]
                /\ UNCHANGED answered
        /\ UNCHANGED <<users, directions, tests, results, tokens, now, verificationVars>>

\* readJsonFile(USERS_FILE) returns
DeleteDirectionReadUsers(slot) ==
    LET r == reqs[slot]
    IN  /\ r.op = "deleteDirection" /\ r.pc = "readUsers"
        /\ reqs' = [reqs EXCEPT ![slot] = [pc |-> "readTests", users |-> users] @@ r]
        /\ UNCHANGED <<users, directions, tests, results, tokens, now, answered, nreq, verificationVars>>

\* readJsonFile(TESTS_FILE) returns: the two checks, directions.splice
DeleteDirectionReadTests(slot) ==
    LET r == reqs[slot]
        locals == {"pc", "directions", "directionIndex", "users"}
        seen == [referenced |-> Referenced(r.id)] @@ r
    IN  /\ r.op = "deleteDirection" /\ r.pc = "readTests"
        /\ IF \/ Some(r.users, [direction |-> r.id])
              \/ Some(tests, [direction |-> r.id])
           THEN /\ Answer(Without(seen, locals), Failure(400, "DirectionInUse"))
                /\ reqs' = [reqs EXCEPT ![slot] = Idle]
           ELSE /\ reqs' = [reqs EXCEPT ![slot] =
                    [pc |-> "write",
                     directions |-> RemoveAt(r.directions, r.directionIndex)]
                    @@ Without(seen, {"users"})]
                /\ UNCHANGED answered
        /\ UNCHANGED <<users, directions, tests, results, tokens, now, nreq, verificationVars>>

\* writeJsonFile(DIRECTIONS_FILE, directions) returns, and the handler answers
DeleteDirectionWrite(slot, written) ==
    LET r == reqs[slot]
    IN  /\ r.op = "deleteDirection" /\ r.pc = "write"
        /\ directions' = IF written THEN r.directions ELSE directions
        /\ Answer([Without(r, {"pc", "directions", "directionIndex"})
                        EXCEPT !.wrote = written],
                  Success("Deleted"))
        /\ reqs' = [reqs EXCEPT ![slot] = Idle]
        /\ UNCHANGED <<users, tests, results, tokens, now, nreq, verificationVars>>

(***************************************************************************)
(* The data directory at start                                             *)
(***************************************************************************)
Hash(password) == <<"bcrypt", password>>

\* initDataFiles: the default admin account
AdminUser ==
    [id |-> "1", firstName |-> "Admin", direction |-> "Admin", telegram |-> "@admin",
     login |-> "admin", password |-> Hash("isftqabul2025"), isAdmin |-> TRUE]

\* initDataFiles: the default directions (the first two of the five)
DefaultDirections ==
    <<[id |-> "1", name |-> "Dasturlash"], [id |-> "2", name |-> "Dizayn"]>>

\* jwt.sign({ userId: user.id, isAdmin: user.isAdmin })
Token(user) == [userId |-> user.id, isAdmin |-> user.isAdmin]

(***************************************************************************)
(* Inputs of the requests                                                  *)
(***************************************************************************)
Options == <<Str("a"), Str("b")>>
Question(correct) == [question |-> Str("?"), options |-> Options, correct |-> correct]
QuestionNoMarker == [question |-> Str("?"), options |-> Options]
QuestionWithId == [id |-> Str("7"), question |-> Str("?"), options |-> Options,
                   correct |-> Num(1)]

\* a JSON array as the object it is: the keys 0 .. length - 1
Array(seq) == [i \in 0..(Len(seq) - 1) |-> seq[i + 1]]

SeqsUpTo(S, n) == UNION {[1..k -> S] : k \in 0..n}

\* the id of the test an earlier run created and the first id
\* Date.now().toString() gives in this run
TestIds == {DateNowString(0), DateNowString(1)}

TestBody(direction, questions) ==
    [title |-> "Quiz", direction |-> direction, timeLimit |-> Num(30),
     attempts |-> Str("1"), questions |-> questions]

CreateBodies ==
    {TestBody("2", <<QuestionWithId, QuestionNoMarker>>),
     TestBody("9", <<Question(Num(0))>>),
     TestBody("2", << >>)}

UpdateBodies ==
    {TestBody("2", <<QuestionWithId>>), TestBody("9", <<Question(Num(0))>>),
     TestBody("2", << >>)}

SubmitBodies ==
    {[testId |-> id, answers |-> a] :
        id \in TestIds, a \in {Array(<<Num(1)>>), Array(<<Num(0), Num(1)>>)}}
    \cup {[testId |-> DateNowString(0)]}

DirectionBodies == {[name |-> "Tillar"], [name |-> "Dizayn"], [name |-> ""]}

DirectionIds == {"1", "2", "Admin"}

(***************************************************************************)
(* The data directory an earlier run left: an account registered and a     *)
(* test created then, both as the handlers store them                      *)
(***************************************************************************)
Learner ==
    [id |-> DateNowString(0), firstName |-> "Alice", direction |-> "1",
     directionName |-> "Dasturlash", telegram |-> "@alice", login |-> "alice",
     password |-> Hash("secret"), isAdmin |-> FALSE]

SeedTest ==
    NewTest(DateNowString(0), TestBody("1", <<Question(Num(0)), Question(Num(1))>>),
            "Dasturlash", 0)

Init ==
    /\ directions = DefaultDirections
    /\ results = << >>
    /\ \/ users = <<AdminUser>> /\ tests = << >>
       \/ users = <<AdminUser, Learner>> /\ tests = <<SeedTest>>
    /\ tokens = {Token(users[i]) : i \in DOMAIN users}
    /\ now = 0
    /\ reqs = [s \in Slots |-> Idle]
    /\ answered = {}
    /\ nreq = 0
    /\ verifications = << >>
    /\ bot = FALSE
    /\ telegramChatIds = {}
    /\ used = {}

Routes == {"user", "admin"}
Clocks == 1..MaxClock

Next ==
    \/ \E route \in Routes, cred \in Credentials : AuthenticateTokenRejects(route, cred)
    \/ \E cred \in Credentials : RequireAdminRejects(cred)
    \/ \E slot \in Slots, cred \in Credentials, body \in SubmitBodies :
            SubmitTest(slot, cred, body)
    \/ \E slot \in Slots, clock \in Clocks : SubmitReadResults(slot, clock)
    \/ \E slot \in Slots : SubmitWrite(slot, TRUE)
    \/ \E cred \in Credentials, testId \in TestIds : GetTest(cred, testId)
    \/ \E slot \in Slots, cred \in Credentials, body \in CreateBodies, clock \in Clocks :
            CreateTest(slot, cred, body, clock)
    \/ \E slot \in Slots : CreateReadTests(slot)
    \/ \E slot \in Slots : CreateWrite(slot, TRUE)
    \/ \E slot \in Slots, cred \in Credentials, testId \in TestIds :
            DeleteTest(slot, cred, testId)
    \/ \E slot \in Slots : DeleteTestWrite(slot, TRUE)
    \/ \E slot \in Slots, cred \in Credentials, testId \in TestIds, body \in UpdateBodies :
            UpdateTest(slot, cred, testId, body)
    \/ \E slot \in Slots, clock \in Clocks : UpdateReadDirections(slot, clock)
    \/ \E slot \in Slots : UpdateWrite(slot, TRUE)
    \/ GetDirections
    \/ \E slot \in Slots, cred \in Credentials, body \in DirectionBodies, clock \in Clocks :
            AddDirection(slot, cred, body, clock)
    \/ \E slot \in Slots : AddDirectionWrite(slot, TRUE)
    \/ \E slot \in Slots, cred \in Credentials, id \in DirectionIds :
            DeleteDirection(slot, cred, id)
    \/ \E slot \in Slots : DeleteDirectionReadUsers(slot)
    \/ \E slot \in Slots : DeleteDirectionReadTests(slot)
    \/ \E slot \in Slots : DeleteDirectionWrite(slot, TRUE)

Spec == Init /\ [][Next]_vars

\* a writeJsonFile that catches an error and returns false
WriteFails ==
    \/ \E slot \in Slots : SubmitWrite(slot, FALSE)
    \/ \E slot \in Slots : CreateWrite(slot, FALSE)
    \/ \E slot \in Slots : DeleteTestWrite(slot, FALSE)
    \/ \E slot \in Slots : UpdateWrite(slot, FALSE)
    \/ \E slot \in Slots : AddDirectionWrite(slot, FALSE)
    \/ \E slot \in Slots : DeleteDirectionWrite(slot, FALSE)

FaultNext == Next \/ WriteFails

FaultSpec == Init /\ [][FaultNext]_vars

(***************************************************************************)
(* Fetching: GET /api/tests and GET /api/tests/:id, with the requests that *)
(* write the tests file and the results file                               *)
(***************************************************************************)
FetchNext ==
    \/ \E slot \in Slots, cred \in Credentials : GetTests(slot, cred)
    \/ \E slot \in Slots : GetTestsReadTests(slot)
    \/ \E slot \in Slots : GetTestsReadResults(slot)
    \/ \E cred \in Credentials, testId \in TestIds : GetTest(cred, testId)
    \/ \E slot \in Slots, cred \in Credentials, body \in SubmitBodies :
            SubmitTest(slot, cred, body)
    \/ \E slot \in Slots, clock \in Clocks : SubmitReadResults(slot, clock)
    \/ \E slot \in Slots : SubmitWrite(slot, TRUE)
    \/ \E slot \in Slots, cred \in Credentials, body \in CreateBodies, clock \in Clocks :
            CreateTest(slot, cred, body, clock)
    \/ \E slot \in Slots : CreateReadTests(slot)
    \/ \E slot \in Slots : CreateWrite(slot, TRUE)
    \/ \E slot \in Slots, cred \in Credentials, testId \in TestIds :
            DeleteTest(slot, cred, testId)
    \/ \E slot \in Slots : DeleteTestWrite(slot, TRUE)

FetchSpec == Init /\ [][FetchNext]_vars

(***************************************************************************)
(* Grading alone: one submit-test request against a tests file that holds  *)
(* one test.  The tests are all the short ones, the scenario of the        *)
(* specification, and tests of up to GradeMaxTotal questions; the answers  *)
(* are all the short arrays, an object with a missing key, the scenario's  *)
(* answers, and arrays that answer the first k questions of a long test.   *)
(***************************************************************************)
GradeMaxQuestions == 2
GradeMaxTotal == 40

GradeQuestions == {Question(Num(0)), Question(Num(1)), QuestionNoMarker}
GradeAnswerValues == {Num(0), Num(1), Str("0")}
ScenarioQuestions == <<Question(Num(0)), Question(Num(1)), Question(Num(2)), Question(Num(3))>>
ScenarioAnswers == Array(<<Num(0), Num(1), Num(9), Num(3)>>)

GradeQuestionLists ==
    SeqsUpTo(GradeQuestions, GradeMaxQuestions)
    \cup {ScenarioQuestions}
    \cup {[i \in 1..n |-> Question(Num(0))] : n \in 1..GradeMaxTotal}

GradeAnswers ==
    {Array(s) : s \in SeqsUpTo(GradeAnswerValues, GradeMaxQuestions + 1)}
    \cup {(1 :> Num(1)), ScenarioAnswers}
    \cup {Array([i \in 1..k |-> Num(0)]) : k \in 0..GradeMaxTotal}

\* a test of the tests file: its questions numbered as create-test numbers
\* them; a test without questions is one no create-test stored
GradeTest(questions) ==
    [NewTest(DateNowString(0), TestBody("1", questions), "Dasturlash", 0)
        EXCEPT !.questions = NumberQuestions(questions)]

GradeInit ==
    /\ directions = DefaultDirections
    /\ results = << >>
    /\ users = <<AdminUser>>
    /\ \E questions \in GradeQuestionLists : tests = <<GradeTest(questions)>>
    /\ tokens = {Token(AdminUser)}
    /\ now = 0
    /\ reqs = [s \in Slots |-> Idle]
    /\ answered = {}
    /\ nreq = MaxRequests - 1
    /\ verifications = << >>
    /\ bot = FALSE
    /\ telegramChatIds = {}
    /\ used = {}

\* the request bodies: the test of the tests file, each of the answers
GradeBodies ==
    {[testId |-> DateNowString(0), answers |-> answers, timeSpent |-> Num(30)] :
        answers \in GradeAnswers}

\* the administrator's token
GradeCredential == Bearer(Token(AdminUser))

GradeNext ==
    \/ \E body \in GradeBodies : SubmitTest(1, GradeCredential, body)
    \/ \E clock \in Clocks : SubmitReadResults(1, clock)
    \/ SubmitWrite(1, TRUE)

GradeSpec == GradeInit /\ [][GradeNext]_vars

(***************************************************************************)
(* Properties of the grading                                               *)
(***************************************************************************)
\* the submit-test requests answered with success
Graded == {a \in answered : a.op = "submit" /\ a.resp.status = 200}

\* the result the results file holds for the account and the test of a
\* request (the file holds one when this is used)
Stored(a) == results[ExistingResult(results, a.cred.userId, a.testId)]

HasStored(a) == ExistingResult(results, a.cred.userId, a.testId) # 0

\* the positions, counted from 1, at which the answer is strictly equal to
\* the question's marker; an absent answer and an absent marker are both the
\* value undefined
Matches(questions, answers) ==
    {i \in 1..Len(questions) : Get(answers, i - 1) = Get(questions[i], "correct")}

\* C3: once a submission is graded, the score answered and the score stored
\* are the number of positions at which the answer equals the marker of the
\* question at that position, and the stored outcome list has one entry per
\* question, in the test's order, each naming its question and flagged
\* correct exactly at those positions.
C3_ScoreCountsMatches ==
    \A a \in Graded :
        LET questions == a.test.questions
            matches == Matches(questions, a.body.answers)
        IN  /\ a.resp.body.score = Cardinality(matches)
            /\ HasStored(a)
            /\ Stored(a).score = Cardinality(matches)
            /\ Len(Stored(a).questionResults) = Len(questions)
            /\ \A i \in 1..Len(questions) :
                /\ Stored(a).questionResults[i].questionId = questions[i].id
                /\ Stored(a).questionResults[i].isCorrect = Bool(i \in matches)

\* C3 happens: the four-question test with markers 0, 1, 2, 3 answered
\* 0, 1, 9, 3 is graded 3 of 4, 75 percent, the third outcome incorrect
C3_Witness ==
    \E a \in Graded :
        /\ a.test.questions = NumberQuestions(ScenarioQuestions)
        /\ a.body.answers = ScenarioAnswers
        /\ a.resp.body = [score |-> 3, totalQuestions |-> 4, percentage |-> Num(75)]
        /\ HasStored(a)
        /\ [i \in 1..4 |-> Stored(a).questionResults[i].isCorrect]
                = <<Bool(TRUE), Bool(TRUE), Bool(FALSE), Bool(TRUE)>>

\* the integer nearest to p / q, a half rounded up
RoundHalfUp(p, q) == ((2 * p) + q) \div (2 * q)

\* C4: for a test of at least one question, the percentage answered and the
\* percentage stored are round(100 * score / totalQuestions), an integer from
\* 0 to 100, and totalQuestions is the number of the test's questions.
C4_PercentageIsRounded ==
    \A a \in Graded :
        Len(a.test.questions) >= 1 =>
            LET total == Len(a.test.questions)
                rounded == RoundHalfUp(100 * a.resp.body.score, total)
            IN  /\ a.resp.body.totalQuestions = total
                /\ a.resp.body.percentage = Num(rounded)
                /\ rounded \in 0..100
                /\ HasStored(a)
                /\ Stored(a).totalQuestions = total
                /\ Stored(a).percentage = Num(rounded)

Answered(questions, answers) ==
    {i \in 1..Len(questions) : (i - 1) \in DOMAIN answers}

\* C6: a submission that carries answers for an existing test is graded and
\* not refused for a position without an answer; every such position is
\* stored as incorrect and the score counts answered positions only.
C6_AbsentAnswerIsIncorrect ==
    /\ \A a \in answered :
        (a.op = "submit" /\ ~Missing(a.body, "answers") /\ "test" \in DOMAIN a)
            => a.resp \in {Failure(400, "AlreadySubmitted")} \cup
                          {Success(SubmitSummary(a.test, a.body.answers))}
    /\ \A a \in Graded :
        LET questions == a.test.questions
            present == Answered(questions, a.body.answers)
        IN  /\ HasStored(a)
            /\ \A i \in (1..Len(questions)) \ present :
                    Stored(a).questionResults[i].isCorrect = Bool(FALSE)
            /\ Stored(a).score =
                    Cardinality({i \in present :
                        Stored(a).questionResults[i].isCorrect = Bool(TRUE)})
            /\ a.resp.body.score = Stored(a).score

(***************************************************************************)
(* Properties of the handlers under interleaving                           *)
(***************************************************************************)
\* the results the file holds for an account and a test
ResultsOf(userId, testId) ==
    {i \in DOMAIN results : results[i].userId = userId /\ results[i].testId = testId}

\* C1: a submit-test that carries answers for a test of the tests file, and
\* that is received after a submit-test of the same account for the same
\* test was answered with success, is answered 400 AlreadySubmitted and does
\* not write the results file.
C1_SecondSubmitIsRefused ==
    \A a \in answered :
        (a.op = "submit" /\ a.after) =>
            a.resp = Failure(400, "AlreadySubmitted") /\ ~a.wrote

BothGraded(a, b) ==
    /\ a \in Graded /\ b \in Graded
    /\ a.slot # b.slot
    /\ a.cred.userId = b.cred.userId /\ a.testId = b.testId

Fetched == {a \in answered : a.op = "getTest" /\ a.resp.status = 200}

\* C8: every question of a payload of GET /api/tests/:id has no property but
\* id, question and options: the marker of the correct option is not in it.
C8_PayloadHidesMarker ==
    \A a \in Fetched :
        \A i \in DOMAIN a.resp.body.questions :
            /\ DOMAIN a.resp.body.questions[i] \subseteq {"id", "question", "options"}
            /\ "correct" \notin DOMAIN a.resp.body.questions[i]

\* C8 happens: a caller who is not an administrator was answered with a test
\* whose stored questions all hold a marker
C8_Witness ==
    \E a \in Fetched :
        /\ ~a.cred.isAdmin
        /\ \E k \in DOMAIN tests :
            /\ tests[k].id = a.testId
            /\ Len(tests[k].questions) = Len(a.resp.body.questions)
            /\ Len(tests[k].questions) >= 1
            /\ \A i \in DOMAIN tests[k].questions :
                    "correct" \in DOMAIN tests[k].questions[i]

\* C9: the i-th question of every test of the tests file has the id i.
C9_QuestionIdsAreSequential ==
    \A k \in DOMAIN tests :
        \A i \in DOMAIN tests[k].questions :
            tests[k].questions[i].id = Str(ToString(i))

\* C10: a delete-direction of an existing direction that an account or a
\* test names when the handler checks is answered 400 DirectionInUse and
\* writes nothing; one of a direction nothing names is answered with
\* success; and no listing of the directions received after that answer
\* holds the direction.
C10_DeleteDirection ==
    /\ \A a \in answered :
        (a.op = "deleteDirection" /\ "referenced" \in DOMAIN a) =>
            IF a.referenced
            THEN a.resp = Failure(400, "DirectionInUse") /\ ~a.wrote
            ELSE a.resp.status = 200
    /\ \A a \in answered :
        a.op = "getDirections" =>
            \A id \in a.deleted :
                \A k \in DOMAIN a.resp.body : a.resp.body[k].id # id

(***************************************************************************)
(* Properties under a failing writeJsonFile                                *)
(***************************************************************************)
\* C7: a submit-test is answered with success only when its write of the
\* results file succeeded.
C7_SuccessMeansPersisted ==
    \A a \in Graded : a.wrote

(***************************************************************************)
(* Verification by Telegram: POST /api/send-verification, POST             *)
(* /api/verify-code and the bot's /register command.  A handler here reads *)
(* the clock as it stands; time passes in steps of its own.                *)
(***************************************************************************)
\* 5 * 60 * 1000: the milliseconds a code stays valid
ExpiryMinutes == 5
Expiry == ExpiryMinutes * 60 * 1000

\* the clock runs to this many milliseconds past the first expiry
MaxLate == 1

\* new Date(t).toISOString(): the instant, to the millisecond
ToISOString(t) == <<"iso", t>>

\* new Date(string).getTime(): the millisecond the ISO string names
ParseDate(string) == string[2]

\* the instants the clock is looked at: the start, and around the expiry of
\* a code issued at the start
Times == {0, Expiry - 1, Expiry, Expiry + MaxLate}

\* time passes
TimePasses(t) ==
    /\ t \in Times
    /\ t > now
    /\ now' = t
    /\ UNCHANGED <<users, directions, tests, results, tokens, reqs, answered, nreq,
                   verificationVars>>

\* bot.onText(/\/register (.+)/): the chat id is kept under the username
BotRegister(username) ==
    /\ bot
    /\ username \notin telegramChatIds
    /\ telegramChatIds' = telegramChatIds \cup {username}
    /\ UNCHANGED <<users, directions, tests, results, tokens, now, reqs, answered, nreq,
                   verifications, bot, used>>

\* the codes of `used` that are not of this username
UsedByOthers(telegram) == {pair \in used : pair[1] # telegram}

\* newVerification
NewVerification(telegram, code, clock) ==
    [telegram |-> telegram,
     code |-> code,
     createdAt |-> ToISOString(clock),
     expiresAt |-> ToISOString(clock + Expiry)]

\* the body of the answer of send-verification, as JSON
SendVerificationBody(codeSent, code) ==
    JsonObject([message |-> Str(IF codeSent THEN "sent by Telegram" ELSE "created"),
                devCode |-> IF codeSent THEN Undef ELSE Str(code)])

\* the handler up to its write: the code generated, the file read, the
\* entries of the username filtered out, the new entry added
SendVerification(slot, body, code) ==
    LET r == [op |-> "sendVerification", slot |-> slot, body |-> body, code |-> code,
              resp |-> Pending, wrote |-> FALSE, delivery |-> "none"]
    IN  /\ nreq < MaxRequests
        /\ slot = FreeSlot
        /\ nreq' = nreq + 1
        /\ IF Empty(body, "telegram")
           THEN Answer(r, Failure(400, "ValidationError")) /\ UNCHANGED <<reqs, used>>
           ELSE /\ reqs' = [reqs EXCEPT ![slot] =
                    [pc |-> "write",
                     verifications |->
                        Append(Filter(verifications,
                                      {v \in Range(verifications) :
                                            v.telegram # body.telegram}),
                               NewVerification(body.telegram, code, now))] @@ r]
                /\ used' = UsedByOthers(body.telegram)
                /\ UNCHANGED answered
        /\ UNCHANGED <<users, directions, tests, results, tokens, now,
                       verifications, bot, telegramChatIds>>

\* writeJsonFile(VERIFICATION_FILE, ...) returns; with a bot and a chat id of
\* the username bot.sendMessage is called and awaited, otherwise the handler
\* answers
SendVerificationWrite(slot, written) ==
    LET r == reqs[slot]
        wrote == [Without(r, {"pc", "verifications"}) EXCEPT !.wrote = written]
    IN  /\ r.op = "sendVerification" /\ r.pc = "write"
        /\ verifications' = IF written THEN r.verifications ELSE verifications
        /\ used' = UsedByOthers(r.body.telegram)
        /\ IF bot /\ r.body.telegram \in telegramChatIds
           THEN /\ reqs' = [reqs EXCEPT ![slot] =
                                [pc |-> "sendMessage"] @@ [wrote EXCEPT !.delivery = "called"]]
                /\ UNCHANGED answered
           ELSE /\ Answer(wrote, Success(SendVerificationBody(FALSE, r.code)))
                /\ reqs' = [reqs EXCEPT ![slot] = Idle]
        /\ UNCHANGED <<users, directions, tests, results, tokens, now, nreq,
                       bot, telegramChatIds>>

\* bot.sendMessage resolves: codeSent = true, and the handler answers
SendMessageResolves(slot) ==
    LET r == reqs[slot]
    IN  /\ r.op = "sendVerification" /\ r.pc = "sendMessage"
        /\ Answer([Without(r, {"pc"}) EXCEPT !.delivery = "resolved"],
                  Success(SendVerificationBody(TRUE, r.code)))
        /\ reqs' = [reqs EXCEPT ![slot] = Idle]
        /\ UNCHANGED <<users, directions, tests, results, tokens, now, nreq,
                       verificationVars>>

\* bot.sendMessage rejects: the error is caught and logged, and the handler
\* answers
SendMessageRejects(slot) ==
    LET r == reqs[slot]
    IN  /\ r.op = "sendVerification" /\ r.pc = "sendMessage"
        /\ Answer([Without(r, {"pc"}) EXCEPT !.delivery = "rejected"],
                  Success(SendVerificationBody(FALSE, r.code)))
        /\ reqs' = [reqs EXCEPT ![slot] = Idle]
        /\ UNCHANGED <<users, directions, tests, results, tokens, now, nreq,
                       verificationVars>>

\* a faulty comparison, for comparison: a code still verifies at its expiry
UnexpiredOrAt(v, clock) == ParseDate(v.expiresAt) >= clock

\* new Date(v.expiresAt) > new Date()
Unexpired(v, clock) == ParseDate(v.expiresAt) > clock

\* the entries of a file with the username and the code
Matching(file, telegram, code) ==
    {v \in Range(file) : v.telegram = telegram /\ v.code = code}

\* the handler up to its write: the file read, the entry looked up, the
\* entries with the username and the code filtered out
VerifyCode(slot, body) ==
    LET complete == ~Empty(body, "telegram") /\ ~Empty(body, "code")
        matching == IF complete THEN Matching(verifications, body.telegram, body.code)
                    ELSE {}
        r == [op |-> "verifyCode", slot |-> slot, body |-> body, resp |-> Pending,
              wrote |-> FALSE, received |-> now, matching |-> matching,
              after |-> complete /\ <<body.telegram, body.code>> \in used]
    IN  /\ nreq < MaxRequests
        /\ slot = FreeSlot
        /\ nreq' = nreq + 1
        /\ IF ~complete
           THEN Answer(r, Failure(400, "ValidationError")) /\ UNCHANGED reqs
           ELSE IF \A v \in matching : ~Unexpired(v, now)
           THEN Answer(r, Failure(400, "InvalidOrExpired")) /\ UNCHANGED reqs
           ELSE /\ reqs' = [reqs EXCEPT ![slot] =
                    [pc |-> "write",
                     verifications |->
                        Filter(verifications, Range(verifications) \ matching)] @@ r]
                /\ UNCHANGED answered
        /\ UNCHANGED <<users, directions, tests, results, tokens, now, verificationVars>>

\* writeJsonFile(VERIFICATION_FILE, updatedVerifications) returns, and the
\* handler answers
VerifyCodeWrite(slot, written) ==
    LET r == reqs[slot]
    IN  /\ r.op = "verifyCode" /\ r.pc = "write"
        /\ verifications' = IF written THEN r.verifications ELSE verifications
        /\ used' = used \cup {<<r.body.telegram, r.body.code>>}
        /\ Answer([Without(r, {"pc", "verifications"}) EXCEPT !.wrote = written],
                  Success("Verified"))
        /\ reqs' = [reqs EXCEPT ![slot] = Idle]
        /\ UNCHANGED <<users, directions, tests, results, tokens, now, nreq,
                       bot, telegramChatIds>>

\* the usernames of the requests and of the bot's /register
Telegrams == {"@alice", "@bob"}

\* Math.floor(100000 + Math.random() * 900000): the least and the greatest
GeneratedCodes == {100000, 999999}

\* code.toString()
CodeString(n) == ToString(n)

SendVerificationBodies == {[telegram |-> u] : u \in Telegrams} \cup {[telegram |-> ""]}

VerifyCodeBodies ==
    {[telegram |-> u, code |-> CodeString(n)] : u \in Telegrams, n \in GeneratedCodes}
    \cup {[telegram |-> "@alice"]}

\* the usernames that send /register to the bot
BotUsers == {"@alice"}

\* the server started with or without TELEGRAM_BOT_TOKEN; the verification
\* file holds the code a send-verification has just issued
VerifyInit ==
    /\ users = <<AdminUser>>
    /\ directions = DefaultDirections
    /\ tests = << >>
    /\ results = << >>
    /\ tokens = {}
    /\ now = 0
    /\ reqs = [s \in Slots |-> Idle]
    /\ answered = {}
    /\ nreq = 0
    /\ verifications = <<NewVerification("@alice", CodeString(100000), 0)>>
    /\ bot \in BOOLEAN
    /\ telegramChatIds = {}
    /\ used = {}

\* the steps of the handlers, which the server takes by itself
VerifySteps ==
    \/ \E slot \in Slots : SendVerificationWrite(slot, TRUE)
    \/ \E slot \in Slots : VerifyCodeWrite(slot, TRUE)

\* the requests, the bot's messages, the clock and the outcomes of
\* bot.sendMessage, which come from outside
VerifyEvents ==
    \/ \E slot \in Slots, body \in SendVerificationBodies, n \in GeneratedCodes :
            SendVerification(slot, body, CodeString(n))
    \/ \E slot \in Slots, body \in VerifyCodeBodies : VerifyCode(slot, body)
    \/ \E slot \in Slots : SendMessageResolves(slot)
    \/ \E slot \in Slots : SendMessageRejects(slot)
    \/ \E username \in BotUsers : BotRegister(username)
    \/ \E t \in Times : TimePasses(t)

VerifyNext == VerifySteps \/ VerifyEvents

\* the event loop runs a handler whose await has returned; nothing makes a
\* request arrive or bot.sendMessage settle
VerifySpec == VerifyInit /\ [][VerifyNext]_vars /\ WF_vars(VerifySteps)

(***************************************************************************)
(* Properties of the verification                                          *)
(***************************************************************************)
\* the verify-code requests received, answered or not, that carried a
\* username and a code
Verifying ==
    {a \in answered : a.op = "verifyCode"}
    \cup {reqs[slot] : slot \in {s \in Slots : reqs[s].op = "verifyCode"}}

\* every entry with the username and the code that the file held when the
\* request was received had expired by then
AllExpired(a) ==
    /\ a.matching # {}
    /\ \A v \in a.matching : a.received >= ParseDate(v.expiresAt)

\* C11: a verify-code received at or after the expiry of the entry with its
\* username and code is answered 400 InvalidOrExpired, and it never gets to
\* write the verification file.
C11_ExpiredCodeIsRefused ==
    \A a \in Verifying :
        AllExpired(a) =>
            /\ a \in answered
            /\ a.resp = Failure(400, "InvalidOrExpired")
            /\ ~a.wrote

\* C11 happens: a verify-code with the right username and code was received
\* at the very millisecond of the expiry, and was refused
C11_Witness ==
    \E a \in answered :
        /\ a.op = "verifyCode"
        /\ \E v \in a.matching : a.received = ParseDate(v.expiresAt)
        /\ AllExpired(a)
        /\ a.resp = Failure(400, "InvalidOrExpired")

\* C12: a verify-code with the username and the code of an entry that has
\* not expired is answered with success and writes the file without the
\* entry; and a verify-code received after that answer with the same
\* username and code, no send-verification for the username having been
\* received or written since, is answered 400 InvalidOrExpired.
C12_CodeIsSingleUse ==
    /\ \A a \in answered :
        (a.op = "verifyCode" /\ \E v \in a.matching : Unexpired(v, a.received))
            => a.resp.status = 200 /\ a.wrote
    /\ \A a \in Verifying :
        a.after => a \in answered /\ a.resp = Failure(400, "InvalidOrExpired")

\* the send-verification requests answered with success
Issued == {a \in answered : a.op = "sendVerification" /\ a.resp.status = 200}

\* C17: the answer of send-verification holds the code exactly when the
\* handler found no chat id for the username (or there is no bot); when it
\* found one and called bot.sendMessage, the answer holds no code, whether
\* the call resolved or rejected.
C17_CodeOnlyWithoutChannel ==
    \A a \in Issued :
        IF a.delivery = "none"
        THEN Get(a.resp.body, "devCode") = Str(a.code)
        ELSE "devCode" \notin DOMAIN a.resp.body

\* C18: every send-verification request received is answered, whatever
\* becomes of bot.sendMessage.
C18_SendVerificationIsAnswered ==
    \A slot \in Slots :
        (reqs[slot].op = "sendVerification") ~> (reqs[slot].op = "idle")

\* the send-verification requests for a username, answered or in flight
IssuesFor(telegram, done, flying) ==
    {a \in done \cup {flying[slot] : slot \in Slots} :
        a.op = "sendVerification" /\ a.body.telegram = telegram}

\* C19: when bot.sendMessage rejects, the request is answered with success,
\* and the entry it issued is in the verification file at that moment,
\* provided the code was not verified meanwhile and no other
\* send-verification for the username was received.
C19_FailedDeliveryKeepsCode ==
    [][\A a \in answered' \ answered :
            (/\ a.op = "sendVerification" /\ a.delivery = "rejected"
             /\ <<a.body.telegram, a.code>> \notin used'
             /\ Cardinality(IssuesFor(a.body.telegram, answered', reqs')) = 1)
            => /\ a.resp.status = 200
               /\ Matching(verifications', a.body.telegram, a.code) # {}]_vars

(***************************************************************************)
(* Accounts: POST /api/register and POST /api/login                        *)
(***************************************************************************)
\* !firstName || !lastName || !direction || !phone || !telegram || !login || !password
MissingUserField(body) ==
    \E key \in {"firstName", "lastName", "direction", "phone", "telegram", "login",
                "password"} : Empty(body, key)

\* a faulty account, for comparison: registered as an administrator
NewUserPrivileged(body, directionName, clock) ==
    [id |-> DateNowString(clock),
     firstName |-> body.firstName,
     lastName |-> body.lastName,
     direction |-> body.direction,
     directionName |-> directionName,
     phone |-> body.phone,
     telegram |-> body.telegram,
     login |-> body.login,
     password |-> Hash(body.password),
     isAdmin |-> TRUE,
     createdAt |-> clock]

\* newUser
NewUser(body, directionName, clock) ==
    [id |-> DateNowString(clock),
     firstName |-> body.firstName,
     lastName |-> body.lastName,
     direction |-> body.direction,
     directionName |-> directionName,
     phone |-> body.phone,
     telegram |-> body.telegram,
     login |-> body.login,
     password |-> Hash(body.password),
     isAdmin |-> FALSE,
     createdAt |-> clock]

\* faulty checks, for comparison: the login, the username is not looked for
LoginNeverTaken(file, login) == FALSE
TelegramNeverTaken(file, telegram) == FALSE

\* users.some(u => u.login === login)
LoginTaken(file, login) == Some(file, [login |-> login])

\* users.some(u => u.telegram === telegram)
TelegramTaken(file, telegram) == Some(file, [telegram |-> telegram])

\* the handler up to its second await: the body, the users file read, the
\* login and the username looked for
Register(slot, body) ==
    LET complete == ~MissingUserField(body)
        r == [op |-> "register", slot |-> slot, body |-> body, resp |-> Pending,
              wrote |-> FALSE,
              taken |-> /\ ~Empty(body, "login") /\ ~Empty(body, "telegram")
                        /\ \E i \in DOMAIN users :
                                \/ users[i].login = body.login
                                \/ users[i].telegram = body.telegram]
    IN  /\ nreq < MaxRequests
        /\ slot = FreeSlot
        /\ nreq' = nreq + 1
        /\ IF ~complete
           THEN Answer(r, Failure(400, "ValidationError")) /\ UNCHANGED reqs
           ELSE IF LoginTaken(users, body.login)
           THEN Answer(r, Failure(400, "LoginTaken")) /\ UNCHANGED reqs
           ELSE IF TelegramTaken(users, body.telegram)
           THEN Answer(r, Failure(400, "TelegramTaken")) /\ UNCHANGED reqs
           ELSE /\ reqs' = [reqs EXCEPT ![slot] =
                                [pc |-> "readDirections", users |-> users] @@ r]
                /\ UNCHANGED answered
        /\ UNCHANGED <<users, directions, tests, results, tokens, now, verificationVars>>

\* readJsonFile(DIRECTIONS_FILE) returns: the direction looked up, the
\* password hashed, users.push(newUser) on the array read before
RegisterReadDirections(slot, clock) ==
    LET r == reqs[slot]
        d == SelectedDirection(directions, r.body.direction)
    IN  /\ r.op = "register" /\ r.pc = "readDirections"
        /\ ClockRead(clock)
        /\ IF d = 0
           THEN /\ Answer(Without(r, {"pc", "users"}), Failure(400, "UnknownDirection"))
                /\ reqs' = [reqs EXCEPT ![slot] = Idle]
                /\ UNCHANGED now
           ELSE /\ reqs' = [reqs EXCEPT ![slot] =
                    [pc |-> "write",
                     users |-> Append(r.users, NewUser(r.body, directions[d].name, clock))]
                    @@ r]
                /\ now' = clock
                /\ UNCHANGED answered
        /\ UNCHANGED <<users, directions, tests, results, tokens, nreq, verificationVars>>

\* writeJsonFile(USERS_FILE, users) returns, and the handler answers
RegisterWrite(slot, written) ==
    LET r == reqs[slot]
    IN  /\ r.op = "register" /\ r.pc = "write"
        /\ users' = IF written THEN r.users ELSE users
        /\ Answer([Without(r, {"pc", "users"}) EXCEPT !.wrote = written],
                  Success("Registered"))
        /\ reqs' = [reqs EXCEPT ![slot] = Idle]
        /\ UNCHANGED <<directions, tests, results, tokens, now, nreq, verificationVars>>

\* bcrypt.compare(password, hash)
BcryptCompare(password, hash) == hash = Hash(password)

\* the body of the answer of login: the token and the account's public part
LoginBody(user) ==
    [token |-> Token(user),
     user |-> [key \in {"id", "firstName", "lastName", "direction", "directionName",
                        "isAdmin"} \cap DOMAIN user |-> user[key]]]

\* the whole handler: it holds nothing of the files after its one read
Login(body) ==
    LET r == [op |-> "login", body |-> body, resp |-> Pending]
        index == FindIndex(users, [login |-> body.login])
    IN  /\ nreq < MaxRequests
        /\ nreq' = nreq + 1
        /\ IF Empty(body, "login") \/ Empty(body, "password")
           THEN Answer(r, Failure(400, "ValidationError")) /\ UNCHANGED tokens
           ELSE IF index = 0 \/ ~BcryptCompare(body.password, users[index].password)
           THEN Answer(r, Failure(400, "InvalidCredentials")) /\ UNCHANGED tokens
           ELSE /\ Answer(r, Success(LoginBody(users[index])))
                /\ tokens' = tokens \cup {Token(users[index])}
        /\ UNCHANGED <<users, directions, tests, results, now, reqs, verificationVars>>

UserBody(login, telegram, direction) ==
    [firstName |-> "Ann", lastName |-> "Lee", direction |-> direction,
     phone |-> "+998", telegram |-> telegram, login |-> login, password |-> "secret"]

RegisterBodies ==
    {UserBody(login, telegram, direction) :
        login \in {"alice", "bob"}, telegram \in Telegrams, direction \in {"1", "9"}}
    \cup {[login |-> "alice", telegram |-> "@alice"]}

LoginBodies ==
    {[login |-> "admin", password |-> "isftqabul2025"],
     [login |-> "alice", password |-> "secret"],
     [login |-> "bob", password |-> "wrong"],
     [login |-> "alice"]}

AccountNext ==
    \/ \E slot \in Slots, body \in RegisterBodies : Register(slot, body)
    \/ \E slot \in Slots, clock \in Clocks : RegisterReadDirections(slot, clock)
    \/ \E slot \in Slots : RegisterWrite(slot, TRUE)
    \/ \E body \in LoginBodies : Login(body)

AccountSpec == Init /\ [][AccountNext]_vars

(***************************************************************************)
(* Properties of the accounts                                              *)
(***************************************************************************)
\* the register requests received, answered or not
Registering ==
    {a \in answered : a.op = "register"}
    \cup {reqs[slot] : slot \in {s \in Slots : reqs[s].op = "register"}}

\* C13: a register whose login or whose username is that of an account of
\* the users file is answered 400, as a conflict when its body is complete,
\* and never gets to write the users file.
C13_TakenIsRefused ==
    \A a \in Registering :
        a.taken =>
            /\ a \in answered
            /\ a.resp.status = 400
            /\ ~MissingUserField(a.body) => a.resp.error \in {"LoginTaken", "TelegramTaken"}
            /\ ~a.wrote

\* C13 happens: one register was refused for its login, another, with a
\* login that is free, for its username
C13_Witness ==
    \E a, b \in answered :
        /\ a.op = "register" /\ a.taken /\ a.resp = Failure(400, "LoginTaken")
        /\ b.op = "register" /\ b.taken /\ b.resp = Failure(400, "TelegramTaken")
        /\ \A i \in DOMAIN users : users[i].login # b.body.login

\* C14: no two accounts of the users file have the same login, and no two
\* the same username.
C14_LoginAndTelegramUnique ==
    \A i, j \in DOMAIN users :
        (users[i].login = users[j].login \/ users[i].telegram = users[j].telegram)
            => i = j

\* C14 happens: the only two requests received were registers with one
\* login that overlapped; both passed the checks and were answered with
\* success, and the file holds one account with the login, the later write's
C14_Witness ==
    /\ nreq = 2
    /\ \E a, b \in answered :
        /\ a.op = "register" /\ b.op = "register"
        /\ a.slot # b.slot
        /\ a.resp.status = 200 /\ b.resp.status = 200
        /\ a.body.login = b.body.login
        /\ Cardinality({i \in DOMAIN users : users[i].login = a.body.login}) = 1

(***************************************************************************)
(* Properties of the administration routes                                 *)
(***************************************************************************)
\* a request to a route under /api/admin
AdminRoute(a) ==
    \/ a.op \in {"createTest", "updateTest", "deleteTest", "addDirection",
                 "deleteDirection"}
    \/ a.op \in {"authenticateToken", "requireAdmin"} /\ a.route = "admin"

\* the credential is a valid token of an administrator
Privileged(cred) == cred.kind = "bearer" /\ cred.isAdmin

\* C15: a step in which a request to an /api/admin route is received with
\* anything but an administrator's token answers it at once, 401
\* MissingToken without a token and 403 Forbidden with a valid token that is
\* not an administrator's, and changes none of the four files; no handler of
\* such a route ever runs for such a request.
C15_AdminRoutesAreGuarded ==
    [][\A a \in (answered' \ answered) \cup {reqs'[slot] : slot \in Slots} :
            (AdminRoute(a) /\ ~Privileged(a.cred)) =>
                /\ a \in answered'
                /\ a.cred.kind = "none" => a.resp = Failure(401, "MissingToken")
                /\ a.cred.kind = "bearer" => a.resp = Failure(403, "Forbidden")
                /\ UNCHANGED <<users, directions, tests, results>>]_vars

\* C15 happens: with a test in the tests file, a request to an /api/admin
\* route with a learner's token was answered 403 Forbidden and one without a
\* token 401 MissingToken
C15_Witness ==
    /\ tests # << >>
    /\ \E a, b \in answered :
        /\ AdminRoute(a) /\ a.cred.kind = "bearer" /\ ~a.cred.isAdmin
        /\ a.resp = Failure(403, "Forbidden")
        /\ AdminRoute(b) /\ b.cred.kind = "none"
        /\ b.resp = Failure(401, "MissingToken")

\* the direction a request names is in the directions array
Resolves(file, body) ==
    ~Missing(body, "direction") /\ SelectedDirection(file, body.direction) # 0

\* the requests this step answers
AnsweredNow == answered' \ answered

\* C16: a step that answers a create-test or an update-test (one with every
\* field, and for an update one whose test exists) answers 400
\* UnknownDirection and leaves the tests file as it is when the directions
\* file holds no direction of the id the request names; when it answers with
\* success the directions file holds that direction and the test stored
\* carries its name as directionName.
C16_DirectionIsResolved ==
    [][\A a \in AnsweredNow :
            (/\ a.op \in {"createTest", "updateTest"}
             /\ ~MissingTestField(a.body)
             /\ a.resp # Failure(404, "TestNotFound")) =>
                /\ ~Resolves(directions', a.body) =>
                        a.resp = Failure(400, "UnknownDirection")
                /\ a.resp = Failure(400, "UnknownDirection") => UNCHANGED tests
                /\ a.resp.status = 200 =>
                    /\ Some(tests', [id |-> a.resp.body.id,
                                     direction |-> a.body.direction,
                                     directionName |-> a.resp.body.directionName])
                    /\ Some(directions', [id |-> a.body.direction,
                                          name |-> a.resp.body.directionName])]_vars

(***************************************************************************)
(* Properties of the results file                                          *)
(***************************************************************************)
\* the results file holds a result of the account and the test of a graded
\* request, with the score the request was answered
Kept(file, a) ==
    \E i \in DOMAIN file :
        /\ file[i].userId = a.cred.userId
        /\ file[i].testId = a.testId
        /\ file[i].score = a.resp.body.score

\* C20: no step removes or changes a result of the results file, and after
\* every step the file holds the result of every submit-test answered with
\* success so far, also when submit-tests of other accounts or for other
\* tests overlap with it.
C20_ResultsAreAppendOnly ==
    [][/\ \A i \in DOMAIN results :
            i \in DOMAIN results' /\ results'[i] = results[i]
       /\ \A a \in Graded' : Kept(results', a)]_vars

(***************************************************************************)
(* Properties of the fetching                                              *)
(***************************************************************************)
\* a question with another marker, where it has one
Remark(q) ==
    IF "correct" \in DOMAIN q
    THEN [q EXCEPT !.correct = IF q.correct = Num(7) THEN Num(8) ELSE Num(7)]
    ELSE q

\* a tests file that differs from the tests file given in the markers only
Remarked(file) ==
    [i \in DOMAIN file |->
        [file[i] EXCEPT !.questions =
            [j \in DOMAIN file[i].questions |-> Remark(file[i].questions[j])]]]

\* C21: what GET /api/tests and GET /api/tests/:id answer to an account that
\* is not an administrator's, for a test the account has no result for, is
\* what they would answer had every question of the tests file another
\* marker.
C21_FetchIgnoresMarkers ==
    [][\A a \in AnsweredNow :
            (a.op \in {"getTests", "getTest"} /\ ~a.cred.isAdmin /\ a.resp.status = 200) =>
                /\ a.op = "getTests" =>
                    \A i \in DOMAIN a.resp.body :
                        a.resp.body[i].completed = Bool(FALSE) =>
                            a.resp.body[i] =
                                TestsWithStatus(a.user, Remarked(a.tests), results)[i]
                /\ (a.op = "getTest"
                        /\ ExistingResult(results, a.cred.userId, a.testId) = 0) =>
                    a.resp.body =
                        TestWithoutAnswers(
                            Remarked(tests)[FindIndex(tests, [id |-> a.testId])])]_vars

\* the tests of an array a GET /api/tests of the account is to list
Listed(user, file) ==
    {test \in Range(file) : user.isAdmin \/ test.direction = user.direction}

\* C25: a GET /api/tests answered with success lists exactly the tests, of
\* the tests file as the handler read it, whose direction is the direction
\* of the account (all of them for an administrator's account), and marks a
\* test completed exactly when the results file, at the time of the answer,
\* holds a result of the account for the test.
C25_TestsOfTheDirection ==
    [][\A a \in AnsweredNow :
            (a.op = "getTests" /\ a.resp.status = 200) =>
                /\ {Without(a.resp.body[i], {"completed"}) : i \in DOMAIN a.resp.body}
                        = Listed(a.user, a.tests)
                /\ \A i \in DOMAIN a.resp.body :
                        a.resp.body[i].completed =
                            Bool(\E j \in DOMAIN results' :
                                    /\ results'[j].userId = a.user.id
                                    /\ results'[j].testId = a.resp.body[i].id)]_vars

\* C25 happens: a learner's GET /api/tests read a tests file of two tests
\* and was answered one test, marked completed
C25_Witness ==
    \E a \in answered :
        /\ a.op = "getTests" /\ a.resp.status = 200 /\ ~a.user.isAdmin
        /\ Len(a.tests) = 2
        /\ Len(a.resp.body) = 1
        /\ a.resp.body[1].completed = Bool(TRUE)

(***************************************************************************)
(* Properties of the verification file                                     *)
(***************************************************************************)
\* this step is the write of the verification file by the request of a slot
WritesVerifications(slot) ==
    /\ reqs[slot].op \in {"sendVerification", "verifyCode"}
    /\ reqs[slot].pc = "write"
    /\ reqs'[slot] # reqs[slot]

\* the entry a send-verification adds with its write
Adds(r, v) ==
    r.op = "sendVerification" /\ v.telegram = r.body.telegram /\ v.code = r.code

\* C22: after the write of the verification file by a send-verification or
\* by a verify-code that found its entry, the file holds no entry whose
\* expiresAt is at or before the time of the write (the entry the write
\* itself adds is left aside: it is five minutes younger than the read).
C22_WritePrunesExpired ==
    [][\A slot \in Slots :
            WritesVerifications(slot) =>
                \A v \in Range(verifications') :
                    ~Adds(reqs[slot], v) => ParseDate(v.expiresAt) > now']_vars

\* a verification file holds at most one entry of a username
OnePerIdentity(file) ==
    \A i, j \in DOMAIN file : file[i].telegram = file[j].telegram => i = j

\* the one send-verification received for the username has written its
\* entry and was answered, and it issued another code than this one
Superseded(telegram, code) ==
    LET sends == IssuesFor(telegram, answered, reqs)
    IN  /\ Cardinality(sends) = 1
        /\ \A s \in sends :
            s \in answered /\ s.resp.status = 200 /\ s.wrote /\ s.code # code

\* C23: the verification file never holds two entries of one username; and
\* a verify-code received after a send-verification for its username has
\* written and was answered, with a code that is not the one issued then, is
\* answered 400 InvalidOrExpired.
C23_OneEntryPerIdentity ==
    [][/\ OnePerIdentity(verifications')
       /\ nreq' = nreq + 1 =>
            \A a \in Verifying' \ Verifying :
                (/\ ~Empty(a.body, "telegram") /\ ~Empty(a.body, "code")
                 /\ Superseded(a.body.telegram, a.body.code))
                => a \in answered' /\ a.resp = Failure(400, "InvalidOrExpired")]_vars

(***************************************************************************)
(* Properties of the references to directions                              *)
(***************************************************************************)
\* C24: the direction of every test of the tests file, and of every account
\* of the users file that is not an administrator's, is the id of a
\* direction of the directions file.
C24_DirectionsExist ==
    /\ \A i \in DOMAIN tests : Some(directions, [id |-> tests[i].direction])
    /\ \A i \in DOMAIN users :
            ~users[i].isAdmin => Some(directions, [id |-> users[i].direction])

(***************************************************************************)
(* Properties of the privilege flag                                        *)
(***************************************************************************)
\* the accounts of a users file with isAdmin true
PrivilegedAccounts(file) == {u \in Range(file) : u.isAdmin}

\* C26: no step changes the set of the accounts with isAdmin true or the
\* flag of an account of the users file, every account a register adds has
\* isAdmin false, and every token a login signs with isAdmin true names an
\* account with isAdmin true.
C26_PrivilegedSetIsFixed ==
    [][/\ PrivilegedAccounts(users') = PrivilegedAccounts(users)
       /\ \A u \in Range(users), v \in Range(users') :
            (v.id = u.id /\ v.login = u.login) => v.isAdmin = u.isAdmin
       /\ \A v \in Range(users') \ Range(users) : ~v.isAdmin
       /\ \A token \in tokens' \ tokens :
            token.isAdmin => \E u \in PrivilegedAccounts(users) : u.id = token.userId]_vars

\* C26 happens: an account registered in this run is in the users file next
\* to the administrator's, and a login with it was answered a token
C26_Witness ==
    /\ PrivilegedAccounts(users) = {AdminUser}
    /\ \E a, b \in answered :
        /\ a.op = "register" /\ a.resp.status = 200 /\ a.wrote
        /\ Some(users, [login |-> a.body.login, isAdmin |-> FALSE])
        /\ b.op = "login" /\ b.resp.status = 200
        /\ b.body.login = a.body.login
        /\ b.resp.body.token.isAdmin = FALSE

(***************************************************************************)
(* Properties of the question lists                                        *)
(***************************************************************************)
\* a create-test or an update-test whose questions are an empty array
EmptyList(a) ==
    /\ a.op \in {"createTest", "updateTest"}
    /\ ~Missing(a.body, "questions")
    /\ Len(a.body.questions) = 0

\* C27: a create-test or an update-test with an empty array of questions is
\* answered 400 ValidationError in a step that changes none of the files;
\* every test of the tests file has at least one question; and every
\* submit-test that is graded divides by a length of at least one and
\* answers a percentage that is a number.
C27_NoEmptyTest ==
    [][/\ \A a \in AnsweredNow :
            EmptyList(a) =>
                /\ a.resp = Failure(400, "ValidationError")
                /\ UNCHANGED <<users, directions, tests, results>>
       /\ \A i \in DOMAIN tests' : Len(tests'[i].questions) >= 1
       /\ \A a \in AnsweredNow :
            (a.op = "submit" /\ a.resp.status = 200) =>
                /\ Len(a.test.questions) >= 1
                /\ a.resp.body.percentage # Null]_vars

\* C27 happens: a create-test and an update-test with an empty array of
\* questions were both refused, and a submit-test was graded
C27_Witness ==
    \E a, b, c \in answered :
        /\ a.op = "createTest" /\ EmptyList(a)
        /\ a.resp = Failure(400, "ValidationError")
        /\ b.op = "updateTest" /\ EmptyList(b)
        /\ b.resp = Failure(400, "ValidationError")
        /\ c.op = "submit" /\ c.resp.status = 200
        /\ tests # << >>

====
